---- MODULE Spec2Model ----
(***************************************************************************)
(* A model of whisper-go (src/whisper/whisper.go): a round-robin time      *)
(* series database kept in one file.                                       *)
(*                                                                         *)
(* The file is a sequence of 32-bit big-endian words (every record of the  *)
(* format is a whole number of words, and every offset the code computes   *)
(* is a multiple of 4).  A uint32 is represented by the integer congruent  *)
(* to it modulo 2^32 that lies in [-2^31, 2^31): values below 2^31 are     *)
(* themselves, a wrapped difference such as now - timestamp for a future   *)
(* timestamp is the negative number now - timestamp.  A float64 is its     *)
(* IEEE-754 bit pattern, a pair <<high word, low word>>.                   *)
(***************************************************************************)
EXTENDS Integers, Sequences, FiniteSets, TLC

VARIABLES
    phase,      \* "none": no file; "created": Create returned; "open": Open returned
    file,       \* the bytes of the database file, as a sequence of words
    header,     \* the Header held by the Whisper handle that Open returned
    now,        \* time.Now().Unix()
    last,       \* the last call: its name, arguments and outcome
    pre,        \* the file as it was when the last call started
    log,        \* the writePoints and propagate calls the last call made, in order
    steps,      \* work done on the handle so far
    vin,        \* ValidateArchiveList: the slice passed in
    vout        \* ValidateArchiveList: the slice after the call and the error

vars == <<phase, file, header, now, last, pre, log, steps, vin, vout>>

----------------------------------------------------------------------------
(* Record sizes, set by init() with binary.Size.                           *)

\* binary.Size(Point{}): uint32 + float64
pointSize == 12

\* binary.Size(Metadata{}): uint32 + uint32 + float32 + uint32
metadataSize == 16

\* binary.Size(Archive{}): Archive is []Point, and the size of an empty
\* slice is 0 (the descriptor type is ArchiveInfo, whose size is 12)
archiveSize == 0

AGGREGATION_AVERAGE == 1
AGGREGATION_SUM == 2
AGGREGATION_LAST == 3
AGGREGATION_MAX == 4
AGGREGATION_MIN == 5

----------------------------------------------------------------------------
(* uint32 arithmetic on representatives in [-2^31, 2^31).                  *)

Pow2(n) == 2 ^ n

\* a - b modulo 2^32, for operands whose true values are both below 2^31
\* or both at least 2^31
Sub32(a, b) == a - b

\* a + b modulo 2^32, for operands whose sum stays inside the representatives
Add32(a, b) == a + b

\* unsigned a < b
Lt32(a, b) == IF (a < 0) = (b < 0) THEN a < b ELSE b < 0

\* unsigned a / s and a % s, s > 0 small.  A negative representative x
\* stands for 2^32 + x = 2 * 2147483647 + (x + 2); divided by 1 it is itself.
Div32(a, s) ==
    IF a >= 0 \/ s = 1 THEN a \div s
    ELSE 2 * (2147483647 \div s) + ((a + 2) \div s)
         + ((2 * (2147483647 % s) + ((a + 2) % s)) \div s)

Mod32(a, s) ==
    IF a >= 0 THEN a % s
    ELSE (2 * (2147483647 % s) + ((a + 2) % s)) % s

\* a * 12 modulo 2^32: 12a = 4 * (3a mod 2^30) modulo 2^32
Mul12(a) ==
    LET y == a % Pow2(30)
        z == (y + ((2 * y) % Pow2(30))) % Pow2(30)
    IN  IF z >= Pow2(29) THEN 4 * (z - Pow2(30)) ELSE 4 * z

----------------------------------------------------------------------------
(* float64 values: IEEE-754 bit patterns <<high word, low word>>.  The     *)
(* arithmetic of aggregate() is done exactly on the values k / 2^FracBits  *)
(* with 0 <= k < 2^21; any other pattern or result is NaV, which the       *)
(* sanity invariant NoUnmodelledValue shows is never produced.             *)

FracBits == 4

NaV == <<-1, -1>>

RECURSIVE Log2(_)
Log2(k) == IF k <= 1 THEN 0 ELSE 1 + Log2(k \div 2)

\* math.Float64bits of k / 2^FracBits
FixToF64(k) ==
    IF k = 0 THEN <<0, 0>>
    ELSE IF k < 0 \/ k >= Pow2(21) THEN NaV
    ELSE LET b == Log2(k)
         IN  <<(1023 + b - FracBits) * Pow2(20) + (k - Pow2(b)) * Pow2(20 - b), 0>>

\* math.Float64frombits, as a count of 2^-FracBits; -1 when not such a count
F64ToFix(v) ==
    IF v = <<0, 0>> THEN 0
    ELSE IF v[2] # 0 \/ v[1] < 0 THEN -1
    ELSE LET e  == v[1] \div Pow2(20)
             m  == Pow2(20) + (v[1] % Pow2(20))
             sh == e - 1023 - 20 + FracBits
         IN  IF sh >= 0
             THEN (IF sh <= 0 THEN m ELSE -1)
             ELSE IF (-sh) <= 20 /\ m % Pow2(-sh) = 0 THEN m \div Pow2(-sh) ELSE -1

\* the float64 of the integer n
F64(n) == FixToF64(n * Pow2(FracBits))

\* math.Float32frombits as a fraction <<numerator, denominator>>, for the
\* bit patterns of 0.0, 0.5 and 1.0; <<-1, 1>> for any other pattern
F32Frac(w) ==
    IF w = 0 THEN <<0, 1>>
    ELSE IF w = 1056964608 THEN <<1, 2>>
    ELSE IF w = 1065353216 THEN <<1, 1>>
    ELSE <<-1, 1>>

\* math.Float32bits of 0.0, 0.5 and 1.0
XFilesFactors == {0, 1056964608, 1065353216}

----------------------------------------------------------------------------
(* Records.                                                                *)

ArchiveInfo(o, s, p) == [Offset |-> o, SecondsPerPoint |-> s, Points |-> p]

Point(t, v) == [Timestamp |-> t, Value |-> v]

\* the zero value of ArchiveInfo and of Point
ZeroArchiveInfo == ArchiveInfo(0, 0, 0)

ZeroPoint == Point(0, <<0, 0>>)

\* ArchiveInfo.Retention
Retention(a) == a.SecondsPerPoint * a.Points

\* ArchiveInfo.size
size(a) == a.Points * pointSize

\* ArchiveInfo.end
end(a) == Add32(a.Offset, size(a))

NoErr == "nil"
ErrEOF == "EOF"
ErrCapacity == "archive can store at most n points"
ErrAggregation == "unknown aggregation function"

----------------------------------------------------------------------------
(* The file: seek + binary.Read / binary.Write, big-endian.                *)

RECURSIVE Zeros(_)
Zeros(n) == IF n <= 0 THEN <<>> ELSE <<0>> \o Zeros(n - 1)

RECURSIVE Flatten(_)
Flatten(ss) == IF ss = <<>> THEN <<>> ELSE Head(ss) \o Flatten(Tail(ss))

\* binary.Write of a Point / of a slice of Points
PointWords(p) == <<p.Timestamp, p.Value[1], p.Value[2]>>

PointsWords(ps) == Flatten([i \in 1..Len(ps) |-> PointWords(ps[i])])

\* binary.Write of an ArchiveInfo and of Metadata
ArchiveInfoWords(a) == <<a.Offset, a.SecondsPerPoint, a.Points>>

MetadataWords(m) ==
    <<m.AggregationMethod, m.MaxRetention, m.XFilesFactor, m.ArchiveCount>>

\* file.Seek(off, 0); file.Write(words): bytes between the end of the file and
\* off read as zero afterwards; writing nothing changes nothing
WriteAt(f, off, words) ==
    IF words = <<>> THEN f
    ELSE LET w0 == off \div 4
             n  == Len(words)
             g  == IF Len(f) < w0 THEN f \o Zeros(w0 - Len(f)) ELSE f
             l  == IF Len(g) > w0 + n THEN Len(g) ELSE w0 + n
         IN  [i \in 1..l |->
                 IF i > w0 /\ i <= w0 + n THEN words[i - w0] ELSE g[i]]

\* file.Seek(pos, 0); file.Write([]byte{0}): one zero byte at byte pos
\* (pos is the last byte of a word for every pos Create computes)
WriteZeroByteAt(f, pos) ==
    LET w0 == pos \div 4
    IN  IF w0 < Len(f)
        THEN [f EXCEPT ![w0 + 1] = @ - (@ % 256)]
        ELSE f \o Zeros(w0 + 1 - Len(f))

\* Whisper.readPoints: io.ReadFull of 12 * n bytes at off, then decode; on a
\* short read the slice keeps its zero values
readPoints(f, off, n) ==
    LET w0 == off \div 4
    IN  IF n = 0 THEN [points |-> <<>>, err |-> NoErr]
        ELSE IF w0 + 3 * n > Len(f)
        THEN [points |-> [i \in 1..n |-> ZeroPoint], err |-> ErrEOF]
        ELSE [points |-> [i \in 1..n |->
                             Point(f[w0 + 3 * (i - 1) + 1],
                                   <<f[w0 + 3 * (i - 1) + 2], f[w0 + 3 * (i - 1) + 3]>>)],
              err |-> NoErr]

\* Whisper.readPoint
readPoint(f, off) ==
    LET r == readPoints(f, off, 1)
    IN  [point |-> r.points[1], err |-> r.err]

\* Whisper.readPointsBetweenOffsets
readPointsBetweenOffsets(f, archive, startOffset, endOffset) ==
    LET archiveStart == archive.Offset
        archiveEnd   == end(archive)
    IN  IF Lt32(startOffset, endOffset)
        THEN readPoints(f, startOffset, Div32(Sub32(endOffset, startOffset), pointSize))
        ELSE LET numEndPoints   == Div32(Sub32(archiveEnd, startOffset), pointSize)
                 numBeginPoints == Div32(Sub32(endOffset, archiveStart), pointSize)
                 r1 == readPoints(f, startOffset, numEndPoints)
                 r2 == readPoints(f, archiveStart, numBeginPoints)
             IN  IF r1.err # NoErr
                 THEN [points |-> [i \in 1..(numEndPoints + numBeginPoints) |-> ZeroPoint],
                       err |-> r1.err]
                 ELSE [points |-> r1.points \o r2.points, err |-> r2.err]

----------------------------------------------------------------------------
(* Offsets and writes.                                                     *)

\* Whisper.pointOffset: the base point is read at file offset 0
pointOffset(f, archive, timestamp) ==
    LET r == readPoint(f, 0)
    IN  IF r.err # NoErr THEN [offset |-> 0, err |-> r.err]
        ELSE IF r.point.Timestamp = 0
        THEN [offset |-> archive.Offset, err |-> NoErr]
        ELSE LET timeDistance  == Sub32(timestamp, r.point.Timestamp)
                 pointDistance == Div32(timeDistance, archive.SecondsPerPoint)
                 byteDistance  == Mul12(pointDistance)
             IN  [offset |-> Add32(archive.Offset, Mod32(byteDistance, size(archive))),
                  err |-> NoErr]

SubSeqFrom(s, a) == SubSeq(s, a, Len(s))

\* the words of the file that a write changed or added
Changed(before, after) ==
    { i \in 1..Len(after) : i > Len(before) \/ after[i] # before[i] }

\* Whisper.writePoints: the file afterwards and the error; ev is the record of
\* the call kept in the log
writePoints(f, archive, points) ==
    LET nPoints == Len(points)
        po      == pointOffset(f, archive, points[1].Timestamp)
        maxPointsFromOffset == Div32(Sub32(end(archive), po.offset), pointSize)
        f2 == IF nPoints > archive.Points \/ po.err # NoErr THEN f
              ELSE IF nPoints > maxPointsFromOffset
              THEN WriteAt(WriteAt(f, po.offset,
                                   PointsWords(SubSeq(points, 1, maxPointsFromOffset))),
                           archive.Offset,
                           PointsWords(SubSeqFrom(points, maxPointsFromOffset + 1)))
              ELSE WriteAt(f, po.offset, PointsWords(points))
        e  == IF nPoints > archive.Points THEN ErrCapacity ELSE po.err
    IN  [file |-> f2, err |-> e,
         ev |-> [k |-> "write", caller |-> "", archive |-> archive, points |-> points,
                 offset |-> po.offset, err |-> e, changed |-> Changed(f, f2),
                 grew |-> Len(f2) - Len(f)]]

\* Whisper.writePoint
writePoint(f, archive, point) == writePoints(f, archive, <<point>>)

----------------------------------------------------------------------------
(* Aggregation and propagation.                                            *)

RECURSIVE SumFix(_)
SumFix(ks) == IF ks = <<>> THEN 0 ELSE Head(ks) + SumFix(Tail(ks))

\* the loops of AGGREGATION_MAX / AGGREGATION_MIN: the first element, replaced
\* by each later element that is greater / smaller
RECURSIVE MaxValue(_, _)
MaxValue(best, ps) ==
    IF ps = <<>> THEN best
    ELSE MaxValue(IF F64ToFix(Head(ps).Value) > F64ToFix(best) THEN Head(ps).Value ELSE best,
                  Tail(ps))

RECURSIVE MinValue(_, _)
MinValue(best, ps) ==
    IF ps = <<>> THEN best
    ELSE MinValue(IF F64ToFix(Head(ps).Value) < F64ToFix(best) THEN Head(ps).Value ELSE best,
                  Tail(ps))

\* aggregate: the point returned has Timestamp 0
aggregate(aggregationMethod, points) ==
    LET n    == Len(points)
        ks   == [i \in 1..n |-> F64ToFix(points[i].Value)]
        bad  == \E i \in 1..n : ks[i] < 0
        sum  == SumFix(ks)
    IN  IF aggregationMethod = AGGREGATION_AVERAGE
        THEN [point |-> Point(0, IF bad \/ sum % n # 0 THEN NaV ELSE FixToF64(sum \div n)),
              err |-> NoErr]
        ELSE IF aggregationMethod = AGGREGATION_SUM
        THEN [point |-> Point(0, IF bad THEN NaV ELSE FixToF64(sum)), err |-> NoErr]
        ELSE IF aggregationMethod = AGGREGATION_LAST
        THEN [point |-> Point(0, points[n].Value), err |-> NoErr]
        ELSE IF aggregationMethod = AGGREGATION_MAX
        THEN [point |-> Point(0, IF bad THEN NaV ELSE MaxValue(points[1].Value, points)),
              err |-> NoErr]
        ELSE IF aggregationMethod = AGGREGATION_MIN
        THEN [point |-> Point(0, IF bad THEN NaV ELSE MinValue(points[1].Value, points)),
              err |-> NoErr]
        ELSE [point |-> ZeroPoint, err |-> ErrAggregation]

\* the coverage loop of propagate: for i := 0; i < len(points); i += 2, with
\* currentInterval advanced by higher.SecondsPerPoint on every iteration
RECURSIVE neighborPoints(_, _, _, _)
neighborPoints(points, i, currentInterval, step) ==
    IF i >= Len(points) THEN <<>>
    ELSE (IF points[i + 1].Timestamp = currentInterval THEN <<points[i + 1]>> ELSE <<>>)
         \o neighborPoints(points, i + 2, Add32(currentInterval, step), step)

\* float32(known) / float32(total) < xFilesFactor
knownPercent(known, total, xff) ==
    LET q == F32Frac(xff)
    IN  total # 0 /\ known * q[2] < q[1] * total

\* Whisper.propagate
propagate(f, hdr, timestamp, higher, lower) ==
    LET lowerIntervalStart  == Sub32(timestamp, Mod32(timestamp, lower.SecondsPerPoint))
        po                  == pointOffset(f, higher, lowerIntervalStart)
        higherFirstOffset   == po.offset
        numHigherPoints     == Div32(lower.SecondsPerPoint, higher.SecondsPerPoint)
        higherPointsSize    == numHigherPoints * pointSize
        relativeFirstOffset == Sub32(higherFirstOffset, higher.Offset)
        relativeLastOffset  == Mod32(Add32(relativeFirstOffset, higherPointsSize), size(higher))
        higherLastOffset    == Add32(relativeLastOffset, higher.Offset)
        rd  == readPointsBetweenOffsets(f, higher, higherFirstOffset, higherLastOffset)
        nb  == neighborPoints(rd.points, 0, lowerIntervalStart, higher.SecondsPerPoint)
        ag  == aggregate(hdr.Metadata.AggregationMethod, nb)
        aggregatePoint == [ag.point EXCEPT !.Timestamp = lowerIntervalStart]
        wr  == writePoint(f, lower, aggregatePoint)
        ev0 == [k |-> "propagate", timestamp |-> timestamp, higher |-> higher,
                lower |-> lower, start |-> lowerIntervalStart, n |-> numHigherPoints,
                points |-> <<>>, neighbors |-> <<>>, wrote |-> FALSE,
                point |-> ZeroPoint, result |-> FALSE, err |-> NoErr,
                diskMethod |-> f[1]]
    IN  IF po.err # NoErr
        THEN [file |-> f, result |-> FALSE, err |-> po.err,
              evs |-> <<[ev0 EXCEPT !.err = po.err]>>]
        ELSE IF rd.err # NoErr
        THEN [file |-> f, result |-> FALSE, err |-> rd.err,
              evs |-> <<[ev0 EXCEPT !.err = rd.err, !.points = rd.points]>>]
        ELSE IF Len(nb) = 0 \/ knownPercent(Len(nb), Len(rd.points), hdr.Metadata.XFilesFactor)
        THEN [file |-> f, result |-> FALSE, err |-> NoErr,
              evs |-> <<[ev0 EXCEPT !.points = rd.points, !.neighbors = nb]>>]
        ELSE IF ag.err # NoErr
        THEN [file |-> f, result |-> FALSE, err |-> ag.err,
              evs |-> <<[ev0 EXCEPT !.points = rd.points, !.neighbors = nb,
                                    !.err = ag.err]>>]
        ELSE [file |-> wr.file, result |-> TRUE, err |-> NoErr,
              evs |-> <<[ev0 EXCEPT !.points = rd.points, !.neighbors = nb,
                                    !.wrote = (wr.err = NoErr), !.point = aggregatePoint,
                                    !.result = TRUE],
                        [wr.ev EXCEPT !.caller = "propagate"]>>]

----------------------------------------------------------------------------
(* UpdateMany.  A context c is [file, log, err, panic]: the file so far,    *)
(* the calls made so far, the error of the call that ended the work (if      *)
(* any), and whether the goroutine panicked.                                 *)

Ctx(f, l, e) == [file |-> f, log |-> l, err |-> e, panic |-> FALSE]

\* quantizeArchive
quantizeArchive(points, resolution) ==
    [i \in 1..Len(points) |->
        Point(Sub32(points[i].Timestamp, Mod32(points[i].Timestamp, resolution)),
              points[i].Value)]

\* archiveUpdateMany, first loop: the series of points ("archives"), each
\* written by one writePoints call
RECURSIVE splitSeries(_, _, _, _, _, _)
splitSeries(points, i, archives, currentPoints, previousTimestamp, step) ==
    IF i > Len(points)
    THEN (IF Len(currentPoints) > 0 THEN Append(archives, currentPoints) ELSE archives)
    ELSE LET point == points[i]
         IN  IF point.Timestamp = previousTimestamp
             THEN splitSeries(points, i + 1, archives, currentPoints, previousTimestamp, step)
             ELSE IF previousTimestamp # 0
                     /\ point.Timestamp # Add32(previousTimestamp, step)
             THEN splitSeries(points, i + 1, Append(archives, currentPoints),
                              <<point>>, point.Timestamp, step)
             ELSE splitSeries(points, i + 1, archives,
                              Append(currentPoints, point), point.Timestamp, step)

\* archiveUpdateMany, second loop: writePoints of every series, stopping at
\* the first error
RECURSIVE writeSeries(_, _, _, _)

\* archiveUpdateMany, second loop, after the writePoints call that returned wr
writeSeriesNext(c, wr, archiveInfo, archives, i) ==
    IF wr.err # NoErr
    THEN Ctx(wr.file, Append(c.log, [wr.ev EXCEPT !.caller = "archiveUpdateMany"]), wr.err)
    ELSE writeSeries(Ctx(wr.file,
                         Append(c.log, [wr.ev EXCEPT !.caller = "archiveUpdateMany"]),
                         wr.err),
                     archiveInfo, archives, i + 1)

writeSeries(c, archiveInfo, archives, i) ==
    IF i > Len(archives) THEN c
    ELSE writeSeriesNext(c, writePoints(c.file, archiveInfo, archives[i]),
                         archiveInfo, archives, i)

\* archiveUpdateMany, PropagateLoop, the inner loop over the quantized points of
\* one archive info.  stop: the whole loop is left (an error, or a false result)
RECURSIVE propagatePoints(_, _, _, _, _, _, _)

\* the inner loop, after the call of propagate that returned pr
propagatePointsNext(c, pr, hdr, quantizedPoints, i, higher, info) ==
    IF pr.err # NoErr \/ ~pr.result
    THEN [c |-> Ctx(pr.file, c.log \o pr.evs, pr.err), stop |-> TRUE]
    ELSE propagatePoints(Ctx(pr.file, c.log \o pr.evs, pr.err), hdr, quantizedPoints,
                         i + 1, quantizedPoints[i].Timestamp, higher, info)

propagatePoints(c, hdr, quantizedPoints, i, lastTimestamp, higher, info) ==
    IF i > Len(quantizedPoints) THEN [c |-> c, stop |-> FALSE]
    ELSE IF quantizedPoints[i].Timestamp = lastTimestamp
    THEN propagatePoints(c, hdr, quantizedPoints, i + 1, lastTimestamp, higher, info)
    ELSE propagatePointsNext(c, propagate(c.file, hdr, quantizedPoints[i].Timestamp,
                                          higher, info),
                             hdr, quantizedPoints, i, higher, info)

\* archiveUpdateMany, PropagateLoop: for _, info := range w.Header.Archives
RECURSIVE propagateLoop(_, _, _, _, _, _)

\* PropagateLoop, after the inner loop over the points of Header.Archives[j]
\* returned r
propagateLoopNext(r, hdr, points, j, archiveInfo) ==
    IF r.stop THEN r.c
    ELSE propagateLoop(r.c, hdr, points, j + 1, hdr.Archives[j], archiveInfo)

propagateLoop(c, hdr, points, j, higher, archiveInfo) ==
    IF j > Len(hdr.Archives) THEN c
    ELSE IF Lt32(hdr.Archives[j].SecondsPerPoint, archiveInfo.SecondsPerPoint)
    THEN propagateLoop(c, hdr, points, j + 1, higher, archiveInfo)
    ELSE propagateLoopNext(propagatePoints(c, hdr,
                                           quantizeArchive(points,
                                                           hdr.Archives[j].SecondsPerPoint),
                                           1, 0, higher, hdr.Archives[j]),
                           hdr, points, j, archiveInfo)

\* archiveUpdateMany, after the series were written: PropagateLoop runs unless
\* a write failed
archiveUpdateManyPropagate(c1, hdr, archiveInfo, points) ==
    IF c1.err # NoErr THEN c1
    ELSE propagateLoop(c1, hdr, points, 1, archiveInfo, archiveInfo)

\* archiveUpdateMany on the quantized points
archiveUpdateManyWrite(c, hdr, archiveInfo, points0, points) ==
    archiveUpdateManyPropagate(
        writeSeries(Ctx(c.file,
                        Append(c.log, [k |-> "bucket", archive |-> archiveInfo,
                                       points |-> points0]),
                        NoErr),
                    archiveInfo,
                    splitSeries(points, 1, <<>>, <<>>, 0, archiveInfo.SecondsPerPoint),
                    1),
        hdr, archiveInfo, points)

\* Whisper.archiveUpdateMany.  With a SecondsPerPoint of 0, quantizeArchive
\* panics on its first point (integer divide by zero); the archive infos that
\* PropagateLoop does not skip have a SecondsPerPoint of at least step
archiveUpdateMany(c, hdr, archiveInfo, points0) ==
    IF archiveInfo.SecondsPerPoint = 0 /\ Len(points0) > 0
    THEN [c EXCEPT !.panic = TRUE]
    ELSE archiveUpdateManyWrite(c, hdr, archiveInfo, points0,
                                quantizeArchive(points0, archiveInfo.SecondsPerPoint))

\* reverseSorted with the order of Less the wrong way round: ascending
reverseSortedAscending(points) ==
    LET n == Len(points)
    IN  { s \in { [i \in 1..n |-> points[p[i]]] : p \in Permutations(1..n) } :
            \A i \in 1..(n - 1) : ~Lt32(s[i + 1].Timestamp, s[i].Timestamp) }

\* sort.Sort(reverseArchive{points}): sort.Sort is not stable, so every order
\* that is descending by Timestamp is a possible result
reverseSorted(points) ==
    LET n == Len(points)
    IN  { s \in { [i \in 1..n |-> points[p[i]]] : p \in Permutations(1..n) } :
            \A i \in 1..(n - 1) : ~Lt32(s[i].Timestamp, s[i + 1].Timestamp) }

\* UpdateMany: sort the bucket and hand it to archiveUpdateMany, whose error is
\* not looked at
flush(c, hdr, archiveInfo, currentPoints) ==
    { [archiveUpdateMany(c, hdr, archiveInfo, s) EXCEPT !.err = NoErr]
        : s \in reverseSorted(currentPoints) }

\* UpdateMany, the inner loop: for currentArchive.Retention() < age.  Each
\* result is the context, the archive index and bucket to go on with, and
\* whether PointLoop was left (currentArchive = nil, or a panic)
RECURSIVE advance(_, _, _, _, _)

\* the inner loop, after the bucket was flushed with the outcomes cs
advanceNext(cs, hdr, archiveIndex, age) ==
    IF archiveIndex + 1 < Len(hdr.Archives)
    THEN UNION { IF c2.panic
                 THEN {[c |-> c2, archiveIndex |-> archiveIndex + 1,
                        currentPoints |-> <<>>, dropped |-> TRUE]}
                 ELSE advance(c2, hdr, archiveIndex + 1, <<>>, age) : c2 \in cs }
    ELSE { [c |-> c2, archiveIndex |-> archiveIndex + 1, currentPoints |-> <<>>,
            dropped |-> TRUE] : c2 \in cs }

advance(c, hdr, archiveIndex, currentPoints, age) ==
    IF ~Lt32(Retention(hdr.Archives[archiveIndex + 1]), age)
    THEN {[c |-> c, archiveIndex |-> archiveIndex, currentPoints |-> currentPoints,
           dropped |-> FALSE]}
    ELSE advanceNext(IF Len(currentPoints) > 0
                     THEN flush(c, hdr, hdr.Archives[archiveIndex + 1], currentPoints)
                     ELSE {c},
                     hdr, archiveIndex, age)

\* UpdateMany, PointLoop and the final flush
RECURSIVE pointLoop(_, _, _, _, _, _, _)
pointLoop(c, hdr, points, i, archiveIndex, currentPoints, clock) ==
    IF i > Len(points)
    THEN (IF Len(currentPoints) > 0
          THEN flush(c, hdr, hdr.Archives[archiveIndex + 1], currentPoints)
          ELSE {c})
    ELSE LET age == Sub32(clock, points[i].Timestamp)
         IN  UNION { IF a.dropped THEN {a.c}
                     ELSE pointLoop(a.c, hdr, points, i + 1, a.archiveIndex,
                                    Append(a.currentPoints, points[i]), clock)
                     : a \in advance(c, hdr, archiveIndex, currentPoints, age) }

\* Whisper.UpdateMany: the possible outcomes.  &w.Header.Archives[0] panics
\* (index out of range) when the header has no archives
UpdateMany(f, hdr, points, clock) ==
    IF Len(hdr.Archives) = 0
    THEN {[file |-> f, log |-> <<>>, err |-> NoErr, panic |-> TRUE]}
    ELSE { [file |-> c.file, log |-> c.log, err |-> NoErr, panic |-> c.panic]
             : c \in pointLoop(Ctx(f, <<>>, NoErr), hdr, points, 1, 0, <<>>, clock) }

----------------------------------------------------------------------------
(* Update.                                                                 *)

\* Update, first loop: lowerArchives is set by every archive whose retention
\* is not below diff (there is no break), so the last one decides
RECURSIVE lowerArchivesOf(_, _, _, _)
lowerArchivesOf(archives, i, diff, lowerArchives) ==
    IF i > Len(archives) THEN lowerArchives
    ELSE IF Lt32(Retention(archives[i]), diff)
    THEN lowerArchivesOf(archives, i + 1, diff, lowerArchives)
    ELSE lowerArchivesOf(archives, i + 1, diff, SubSeqFrom(archives, i + 1))

\* Update, second loop: propagate down the lower archives
RECURSIVE propagateChain(_, _, _, _, _, _)

\* Update, second loop, after the call of propagate that returned pr
propagateChainNext(c, pr, hdr, timestamp, lowerArchives, i) ==
    IF ~pr.result THEN Ctx(pr.file, c.log \o pr.evs, c.err)
    ELSE IF pr.err # NoErr THEN Ctx(pr.file, c.log \o pr.evs, pr.err)
    ELSE propagateChain(Ctx(pr.file, c.log \o pr.evs, c.err), hdr, timestamp,
                        lowerArchives[i], lowerArchives, i + 1)

propagateChain(c, hdr, timestamp, higherArchive, lowerArchives, i) ==
    IF i > Len(lowerArchives) THEN c
    ELSE propagateChainNext(c, propagate(c.file, hdr, timestamp, higherArchive,
                                         lowerArchives[i]),
                            hdr, timestamp, lowerArchives, i)

\* Update after the point was written with the result wr: the propagation
updatePropagate(wr, hdr, q, currentArchive, lowerArchives) ==
    propagateChain(Ctx(wr.file, <<[wr.ev EXCEPT !.caller = "Update"]>>, wr.err),
                   hdr, q.Timestamp, currentArchive, lowerArchives, 1)

\* Update from the write of the normalized point q on: the outcome
updateOutcome(c) ==
    [file |-> c.file, log |-> c.log, err |-> c.err, panic |-> FALSE, stale |-> FALSE]

updateArchive(f, hdr, q, currentArchive, lowerArchives) ==
    updateOutcome(updatePropagate(writePoint(f, currentArchive, q), hdr, q,
                                  currentArchive, lowerArchives))

\* Whisper.Update.  The archive the range loop finds is a variable of the loop
\* (for i, currentArchive := range ...); the currentArchive that is used after
\* the loop is the one declared before it, which keeps its zero value, and
\* point.Timestamp % 0 is a run-time panic (integer divide by zero)
Update(f, hdr, point, clock) ==
    LET diff           == Sub32(clock, point.Timestamp)
        currentArchive == ZeroArchiveInfo
    IN  IF ~(Lt32(diff, hdr.Metadata.MaxRetention) /\ ~Lt32(diff, 0))
        THEN [file |-> f, log |-> <<>>, err |-> NoErr, panic |-> FALSE, stale |-> TRUE]
        ELSE IF currentArchive.SecondsPerPoint = 0
        THEN [file |-> f, log |-> <<>>, err |-> NoErr, panic |-> TRUE, stale |-> FALSE]
        ELSE updateArchive(f, hdr,
                           Point(Sub32(point.Timestamp,
                                       Mod32(point.Timestamp,
                                             currentArchive.SecondsPerPoint)),
                                 point.Value),
                           currentArchive, lowerArchivesOf(hdr.Archives, 1, diff, <<>>))

----------------------------------------------------------------------------
(* Create, Open, SetAggregationMethod.                                     *)

\* Create: oldest, the largest SecondsPerPoint * Points
RECURSIVE oldest(_)
oldest(archives) ==
    IF archives = <<>> THEN 0
    ELSE LET age  == Retention(Head(archives))
             rest == oldest(Tail(archives))
         IN  IF age > rest THEN age ELSE rest

\* Create: headerSize
headerSize(archives) == metadataSize + archiveSize * Len(archives)

\* Create: the descriptors as written, in the order given, each with the
\* offset archiveOffsetPointer has when it is reached
RECURSIVE assignOffsets(_, _)
assignOffsets(archives, archiveOffsetPointer) ==
    IF archives = <<>> THEN <<>>
    ELSE <<[Head(archives) EXCEPT !.Offset = archiveOffsetPointer]>>
         \o assignOffsets(Tail(archives),
                          archiveOffsetPointer + Head(archives).Points * pointSize)

RECURSIVE totalPoints(_)
totalPoints(archives) ==
    IF archives = <<>> THEN 0 ELSE Head(archives).Points + totalPoints(Tail(archives))

\* Create: the file it leaves.  The metadata and the descriptors are written
\* one after the other from byte 0; then either one zero byte is written at
\* byte archiveOffsetPointer - headerSize - 1 (sparse), or
\* archiveOffsetPointer - headerSize zero bytes follow the descriptors
Create(archives, xFilesFactor, aggregationMethod, sparse) ==
    LET metadata == [AggregationMethod |-> aggregationMethod,
                     MaxRetention |-> oldest(archives),
                     XFilesFactor |-> xFilesFactor,
                     ArchiveCount |-> Len(archives)]
        descs    == assignOffsets(archives, headerSize(archives))
        head     == MetadataWords(metadata)
                    \o Flatten([i \in 1..Len(descs) |-> ArchiveInfoWords(descs[i])])
        archiveOffsetPointer == headerSize(archives) + totalPoints(archives) * pointSize
    IN  IF sparse
        THEN WriteZeroByteAt(head, archiveOffsetPointer - headerSize(archives) - 1)
        ELSE head \o Zeros((archiveOffsetPointer - headerSize(archives)) \div 4)

\* readHeader: the metadata, then ArchiveCount descriptors
readHeader(f) ==
    LET metadata == [AggregationMethod |-> f[1], MaxRetention |-> f[2],
                     XFilesFactor |-> f[3], ArchiveCount |-> f[4]]
        n        == metadata.ArchiveCount
    IN  IF Len(f) < 4 + 3 * n
        THEN [header |-> [Metadata |-> metadata, Archives |-> <<>>], err |-> ErrEOF]
        ELSE [header |-> [Metadata |-> metadata,
                          Archives |-> [i \in 1..n |->
                              ArchiveInfo(f[4 + 3 * (i - 1) + 1], f[4 + 3 * (i - 1) + 2],
                                          f[4 + 3 * (i - 1) + 3])]],
              err |-> NoErr]

\* Whisper.SetAggregationMethod: the receiver is a copy, so the handle's
\* header keeps its method; the copy's metadata is written at byte 0
SetAggregationMethod(f, hdr, aggregationMethod) ==
    WriteAt(f, 0, MetadataWords([hdr.Metadata EXCEPT
                                    !.AggregationMethod = aggregationMethod]))

----------------------------------------------------------------------------
(* ValidateArchiveList.                                                    *)

ErrEmpty == "archive list cannot have 0 length"
ErrDuplicate == "No archive may be a duplicate of another"
ErrNotDivisible == "Higher precision archives must evenly divide in to lower precision"
ErrRetention == "Lower precision archives must cover a larger time interval than higher precision"
ErrCoverage == "Each archive must be able to consolidate the next"

\* sort.Sort(bySecondsPerPoint(archives)): not stable, so every order that is
\* ascending by SecondsPerPoint is a possible result
sortBySecondsPerPoint(archives) ==
    LET n == Len(archives)
    IN  { s \in { [i \in 1..n |-> archives[p[i]]] : p \in Permutations(1..n) } :
            \A i \in 1..(n - 1) : ~Lt32(s[i + 1].SecondsPerPoint, s[i].SecondsPerPoint) }

\* validateFrom with rule 4 accepting an equal retention
RECURSIVE validateFromEqualRetention(_, _)
validateFromEqualRetention(archives, i) ==
    IF i >= Len(archives) THEN NoErr
    ELSE LET archive     == archives[i]
             nextArchive == archives[i + 1]
         IN  IF ~Lt32(archive.SecondsPerPoint, nextArchive.SecondsPerPoint)
             THEN ErrDuplicate
             ELSE IF Mod32(nextArchive.SecondsPerPoint, archive.SecondsPerPoint) # 0
             THEN ErrNotDivisible
             ELSE IF Lt32(Retention(nextArchive), Retention(archive))
             THEN ErrRetention
             ELSE IF Lt32(archive.Points,
                          Div32(nextArchive.SecondsPerPoint, archive.SecondsPerPoint))
             THEN ErrCoverage
             ELSE validateFromEqualRetention(archives, i + 1)

\* ValidateArchiveList, the loop over the sorted list from index i on
RECURSIVE validateFrom(_, _)
validateFrom(archives, i) ==
    IF i >= Len(archives) THEN NoErr
    ELSE LET archive     == archives[i]
             nextArchive == archives[i + 1]
         IN  IF ~Lt32(archive.SecondsPerPoint, nextArchive.SecondsPerPoint)
             THEN ErrDuplicate
             ELSE IF Mod32(nextArchive.SecondsPerPoint, archive.SecondsPerPoint) # 0
             THEN ErrNotDivisible
             ELSE IF ~Lt32(Retention(archive), Retention(nextArchive))
             THEN ErrRetention
             ELSE IF Lt32(archive.Points,
                          Div32(nextArchive.SecondsPerPoint, archive.SecondsPerPoint))
             THEN ErrCoverage
             ELSE validateFrom(archives, i + 1)

\* ValidateArchiveList on the list as sorted: the error returned
ValidateArchiveList(archives) ==
    IF Len(archives) = 0 THEN ErrEmpty ELSE validateFrom(archives, 1)

----------------------------------------------------------------------------
(* Bounds and inputs.                                                      *)

\* work done on one handle: every call counts 1, and every point offered to
\* Update or UpdateMany counts 1
MaxWork == 4

\* points in one UpdateMany batch
MaxBatch == 2

\* points in one UpdateMany batch of the long-batch runs
MaxLongBatch == 3

\* the clock: every call of a run reads the same second
Now0 == 101

\* ages (at Now0) of the points offered, and how far in the future one may be
Ages == {0, 1, 2, 3, 4, 9}
Future == {1}

\* values offered: 1.0 and 2.0
Values == {F64(1), F64(2)}

\* aggregation methods offered: the five constants, and 0 and 6
Methods == 0..6

A(s, p) == ArchiveInfo(0, s, p)

\* archive lists offered to Create: lists that satisfy the five rules, and
\* lists that break one of them or are not sorted
ArchiveLists ==
    { <<>>,
      <<A(2, 2)>>,
      <<A(1, 2), A(2, 2)>>,
      <<A(1, 2), A(2, 2), A(4, 2)>>,
      <<A(2, 2), A(1, 2)>>,
      <<A(1, 2), A(1, 3)>>,
      <<A(2, 2), A(3, 2)>>,
      <<A(1, 3), A(2, 1)>>,
      <<A(1, 1), A(2, 1)>>,
      <<A(3, 2)>> }

InputPoints ==
    { Point(t, v) : t \in { Now0 - a : a \in Ages } \cup { Now0 + d : d \in Future },
                    v \in Values }

RECURSIVE SeqsUpTo(_, _)
SeqsUpTo(S, n) ==
    IF n = 0 THEN {<<>>}
    ELSE LET shorter == SeqsUpTo(S, n - 1)
         IN  shorter \cup { Append(q, x) : q \in { r \in shorter : Len(r) = n - 1 }, x \in S }

Batches == SeqsUpTo(InputPoints, MaxBatch) \ {<<>>}

\* the long batches draw their points from fewer ages
LongAges == {0, 1, 2, 4}

LongPoints == { Point(Now0 - a, v) : a \in LongAges, v \in Values }

LongBatches == SeqsUpTo(LongPoints, MaxLongBatch) \ {<<>>}

\* lists offered to ValidateArchiveList
MaxListLen == 3
ValidateSeconds == 1..4
ValidatePoints == 1..3
ValidateLists ==
    SeqsUpTo({ A(s, p) : s \in ValidateSeconds, p \in ValidatePoints }, MaxListLen)

----------------------------------------------------------------------------
(* The state machine.                                                      *)

NoHeader ==
    [Metadata |-> [AggregationMethod |-> 0, MaxRetention |-> 0, XFilesFactor |-> 0,
                   ArchiveCount |-> 0],
     Archives |-> <<>>]

Call(op) ==
    [op |-> op, archives |-> <<>>, xFilesFactor |-> 0, method |-> 0, sparse |-> FALSE,
     points |-> <<>>, clock |-> 0, err |-> NoErr, panic |-> FALSE, stale |-> FALSE]

NoValidation == [done |-> FALSE, archives |-> <<>>, err |-> NoErr]

Init ==
    /\ phase = "none"
    /\ file = <<>>
    /\ header = NoHeader
    /\ now = Now0
    /\ last = Call("none")
    /\ pre = <<>>
    /\ log = <<>>
    /\ steps = 0
    /\ vin = <<>>
    /\ vout = NoValidation

\* Create(path, archives, xFilesFactor, aggregationMethod, sparse) on a path
\* that does not exist.  A sparse Create of no points at all seeks to byte
\* 2^32 - 1 and is left out.
CreateFrom(lists, factors, methods, sparses) ==
    /\ phase = "none"
    /\ \E archives \in lists, xFilesFactor \in factors,
          aggregationMethod \in methods, sparse \in sparses :
          /\ sparse => totalPoints(archives) > 0
          /\ file' = Create(archives, xFilesFactor, aggregationMethod, sparse)
          /\ last' = [Call("Create") EXCEPT !.archives = archives,
                                            !.xFilesFactor = xFilesFactor,
                                            !.method = aggregationMethod,
                                            !.sparse = sparse]
    /\ phase' = "created"
    /\ pre' = file
    /\ log' = <<>>
    /\ UNCHANGED <<header, now, steps, vin, vout>>

DoCreate == CreateFrom(ArchiveLists, XFilesFactors, Methods, BOOLEAN)

\* Open(path): the handle holds the header as read from the file
DoOpen ==
    /\ phase = "created"
    /\ header' = readHeader(file).header
    /\ phase' = "open"
    /\ UNCHANGED <<file, now, last, pre, log, steps, vin, vout>>

\* w.Update(point)
DoUpdate ==
    /\ phase = "open"
    /\ steps + 2 <= MaxWork
    /\ \E point \in InputPoints :
          \E r \in {Update(file, header, point, now)} :
              /\ file' = r.file
              /\ log' = r.log
              /\ last' = [Call("Update") EXCEPT !.points = <<point>>, !.clock = now,
                                                !.err = r.err, !.panic = r.panic,
                                                !.stale = r.stale]
    /\ pre' = file
    /\ steps' = steps + 2
    /\ UNCHANGED <<phase, header, now, vin, vout>>

\* w.UpdateMany(points)
UpdateManyFrom(batches, budget) ==
    /\ phase = "open"
    /\ \E points \in { b \in batches : steps + 1 + Len(b) <= budget } :
          \E r \in UpdateMany(file, header, points, now) :
              /\ file' = r.file
              /\ log' = r.log
              /\ last' = [Call("UpdateMany") EXCEPT !.points = points, !.clock = now,
                                                    !.err = r.err, !.panic = r.panic]
              /\ steps' = steps + 1 + Len(points)
    /\ pre' = file
    /\ UNCHANGED <<phase, header, now, vin, vout>>

DoUpdateMany == UpdateManyFrom(Batches, MaxWork)

\* w.SetAggregationMethod(aggregationMethod)
DoSetAggregationMethod ==
    /\ phase = "open"
    /\ steps + 2 <= MaxWork
    /\ \E aggregationMethod \in Methods :
          /\ file' = SetAggregationMethod(file, header, aggregationMethod)
          /\ last' = [Call("SetAggregationMethod") EXCEPT !.method = aggregationMethod]
    /\ pre' = file
    /\ log' = <<>>
    /\ steps' = steps + 2
    /\ UNCHANGED <<phase, header, now, vin, vout>>

Next ==
    \/ DoCreate
    \/ DoOpen
    \/ DoUpdate
    \/ DoUpdateMany
    \/ DoSetAggregationMethod

Spec == Init /\ [][Next]_vars

\* Runs of UpdateMany with batches of up to MaxLongBatch points, on a dense
\* database with an x-files factor of 0.5 and an aggregation method of 0, 1 or 5
DoCreateLong ==
    CreateFrom(ArchiveLists, {1056964608}, {0, AGGREGATION_AVERAGE, AGGREGATION_MIN}, {FALSE})

DoUpdateManyLong == UpdateManyFrom(LongBatches, MaxLongBatch + 1)

NextLong ==
    \/ DoCreateLong
    \/ DoOpen
    \/ DoUpdateManyLong

SpecLong == Init /\ [][NextLong]_vars

\* ValidateArchiveList(archives) on its own: the caller's slice is sorted in
\* place and the error is returned
InitValidate ==
    /\ phase = "none"
    /\ file = <<>>
    /\ header = NoHeader
    /\ now = Now0
    /\ last = Call("none")
    /\ pre = <<>>
    /\ log = <<>>
    /\ steps = 0
    /\ vin \in ValidateLists
    /\ vout = NoValidation

DoValidate ==
    /\ ~vout.done
    /\ \E s \in sortBySecondsPerPoint(vin) :
          vout' = [done |-> TRUE, archives |-> s, err |-> ValidateArchiveList(s)]
    /\ UNCHANGED <<phase, file, header, now, last, pre, log, steps, vin>>

NextValidate == DoValidate

SpecValidate == InitValidate /\ [][NextValidate]_vars

\* w.writePoints(archive, points) on its own, as archiveUpdateMany calls it:
\* an archive of the handle, and a run of up to archive.Points points whose
\* timestamps are multiples of the step and one step apart
MaxWrites == 2

WriteLists ==
    { <<A(10, 5)>>,
      <<A(1, 3)>>,
      <<A(1, 2), A(2, 2)>>,
      <<A(1, 2), A(2, 2), A(4, 2)>> }

\* the word at byte 0 that pointOffset reads as the base timestamp
WriteMethods == {0, AGGREGATION_AVERAGE, AGGREGATION_MIN, 100}

WriteStarts == {96, 97, 98, 99, 100, 101, 150}

WriteRuns(archive) ==
    { [i \in 1..n |-> Point(Add32(s - (s % archive.SecondsPerPoint),
                                  (i - 1) * archive.SecondsPerPoint), v)] :
        n \in 1..archive.Points, s \in WriteStarts, v \in Values }

DoCreateWrite == CreateFrom(WriteLists, {1056964608}, WriteMethods, {FALSE})

DoWritePoints ==
    /\ phase = "open"
    /\ steps < MaxWrites
    /\ \E i \in 1..Len(header.Archives) :
          \E points \in WriteRuns(header.Archives[i]) :
              \E r \in {writePoints(file, header.Archives[i], points)} :
                  /\ file' = r.file
                  /\ log' = <<r.ev>>
                  /\ last' = [Call("writePoints") EXCEPT !.archives = <<header.Archives[i]>>,
                                                         !.points = points,
                                                         !.err = r.err]
    /\ pre' = file
    /\ steps' = steps + 1
    /\ UNCHANGED <<phase, header, now, vin, vout>>

NextWrite ==
    \/ DoCreateWrite
    \/ DoOpen
    \/ DoWritePoints

SpecWrite == Init /\ [][NextWrite]_vars

----------------------------------------------------------------------------
(* Sanity of the model.                                                    *)

\* no float64 outside the values the arithmetic is modelled for is produced,
\* and the x-files factor of the handle is one of the modelled ones
NoUnmodelledValue ==
    /\ \A i \in 1..Len(log) :
          log[i].k = "propagate" => log[i].point.Value # NaV
    /\ phase = "open" => F32Frac(header.Metadata.XFilesFactor)[1] >= 0

----------------------------------------------------------------------------
(* What the specification says, stated on its own terms.                   *)

\* the age of a point: now - timestamp, as a signed number
AgeOf(p, clock) == clock - p.Timestamp

\* a timestamp rounded down to a multiple of seconds_per_point
Quantized(t, spp) == t - (t % spp)

\* the header of the handle lists archives of positive resolution, finest first
SortedHeader ==
    /\ \A i \in 1..Len(header.Archives) : header.Archives[i].SecondsPerPoint > 0
    /\ \A i \in 1..(Len(header.Archives) - 1) :
          header.Archives[i].SecondsPerPoint < header.Archives[i + 1].SecondsPerPoint

\* the point the file holds in the slot of archive a for timestamp t
SlotOf(f, a, t) == readPoint(f, pointOffset(f, a, t).offset).point

ErrStalePoint == "StalePoint"

LastPoint == last.points[1]

LastAgeInRange ==
    /\ 0 <= AgeOf(LastPoint, last.clock)
    /\ AgeOf(LastPoint, last.clock) < header.Metadata.MaxRetention

\* C1: Update(p) with 0 <= age < max_retention stores (p.timestamp rounded
\* down to A.seconds_per_point, p.value) in A, the finest archive whose
\* retention >= age, and reading A at the slot for that timestamp yields it.
C1_UpdateStoresPoint ==
    (last.op = "Update" /\ SortedHeader /\ LastAgeInRange) =>
        /\ ~last.panic
        /\ last.err = NoErr
        /\ \E i \in 1..Len(header.Archives) :
              LET a == header.Archives[i]
                  q == Quantized(LastPoint.Timestamp, a.SecondsPerPoint)
              IN  /\ Retention(a) >= AgeOf(LastPoint, last.clock)
                  /\ \A j \in 1..(i - 1) :
                        Retention(header.Archives[j]) < AgeOf(LastPoint, last.clock)
                  /\ SlotOf(file, a, q) = Point(q, LastPoint.Value)

\* C2: Update(p) fails with StalePoint and leaves the file unchanged whenever
\* age is not in [0, max_retention) (age == max_retention and future-dated
\* points included), and a point with age 0 is not rejected.
C2_StalePointRejected ==
    last.op = "Update" =>
        /\ ~LastAgeInRange => (last.err = ErrStalePoint /\ file = pre)
        /\ LastAgeInRange => last.err # ErrStalePoint

\* the positions of a propagate call's interval whose slot belongs to the
\* interval: position i holds timestamp lower_interval_start + i * step
Belonging(e) ==
    { i \in 0..(e.n - 1) :
        /\ i + 1 <= Len(e.points)
        /\ e.points[i + 1].Timestamp = e.start + i * e.higher.SecondsPerPoint }

CoverageMet(e) ==
    LET known == Cardinality(Belonging(e))
        q     == F32Frac(header.Metadata.XFilesFactor)
    IN  known > 0 /\ known * q[2] >= q[1] * e.n

PropagateCalls == { i \in 1..Len(log) : log[i].k = "propagate" /\ log[i].err = NoErr }

\* C3: propagate writes a point to lower and returns true iff known > 0 and
\* known / N >= x_files_factor, known counting every slot of the interval
\* (step 1); otherwise nothing is written and false is returned.
C3_PropagateIffCoverage ==
    \A i \in PropagateCalls :
        /\ log[i].wrote <=> CoverageMet(log[i])
        /\ log[i].result <=> CoverageMet(log[i])

\* the values, as counts of 2^-FracBits, of the belonging slots in slot order
RECURSIVE BelongingValues(_, _)
BelongingValues(e, i) ==
    IF i >= e.n THEN <<>>
    ELSE (IF i \in Belonging(e) THEN <<F64ToFix(e.points[i + 1].Value)>> ELSE <<>>)
         \o BelongingValues(e, i + 1)

RECURSIVE MaxOf(_)
MaxOf(ks) ==
    IF Len(ks) = 1 THEN ks[1]
    ELSE LET m == MaxOf(Tail(ks)) IN IF Head(ks) > m THEN Head(ks) ELSE m

RECURSIVE MinOf(_)
MinOf(ks) ==
    IF Len(ks) = 1 THEN ks[1]
    ELSE LET m == MinOf(Tail(ks)) IN IF Head(ks) < m THEN Head(ks) ELSE m

\* v is the aggregate of the values ks under the method
IsAggregate(method, ks, v) ==
    /\ ks # <<>>
    /\ \/ method = 1 /\ Len(ks) * F64ToFix(v) = SumFix(ks)
       \/ method = 2 /\ F64ToFix(v) = SumFix(ks)
       \/ method = 3 /\ F64ToFix(v) = ks[Len(ks)]
       \/ method = 4 /\ F64ToFix(v) = MaxOf(ks)
       \/ method = 5 /\ F64ToFix(v) = MinOf(ks)

\* C4: a point that propagate writes to the lower archive has timestamp
\* timestamp - (timestamp mod lower.seconds_per_point) and as value the
\* configured aggregation over the values of all belonging slots of the
\* interval, in slot order.
C4_PropagateAggregate ==
    \A i \in PropagateCalls :
        log[i].wrote =>
            /\ log[i].point.Timestamp
                  = Quantized(log[i].timestamp, log[i].lower.SecondsPerPoint)
            /\ IsAggregate(header.Metadata.AggregationMethod,
                           BelongingValues(log[i], 0), log[i].point.Value)

Buckets == { i \in 1..Len(log) : log[i].k = "bucket" }

InBucket(p, i) == \E j \in 1..Len(log[i].points) : log[i].points[j] = p

IsNew(p) ==
    /\ 0 <= AgeOf(p, last.clock)
    /\ AgeOf(p, last.clock) < Retention(header.Archives[1])

IsOld(p) ==
    \A i \in 1..Len(header.Archives) : AgeOf(p, last.clock) > Retention(header.Archives[i])

MixedBatch ==
    /\ last.op = "UpdateMany"
    /\ Len(header.Archives) > 0
    /\ SortedHeader
    /\ \A j \in 1..Len(last.points) : IsNew(last.points[j]) \/ IsOld(last.points[j])
    /\ \E j \in 1..Len(last.points) : IsNew(last.points[j])
    /\ \E j \in 1..Len(last.points) : IsOld(last.points[j])

\* C5: UpdateMany on a batch mixing points newer than the finest archive's
\* retention with points older than all retentions writes every one of the
\* former (to the finest archive) and drops every one of the latter, in
\* whatever order the batch lists them.
C5_MixedBatch ==
    MixedBatch =>
        /\ ~last.panic
        /\ \A j \in 1..Len(last.points) :
              LET p == last.points[j]
              IN  /\ IsNew(p) => \E i \in Buckets :
                                    /\ log[i].archive = header.Archives[1]
                                    /\ InBucket(p, i)
                  /\ IsOld(p) => \A i \in Buckets : ~InBucket(p, i)

\* the quantized timestamps that two or more points of bucket i share
SharedTimestamps(i) ==
    LET spp == log[i].archive.SecondsPerPoint
        ps  == log[i].points
    IN  { Quantized(ps[j].Timestamp, spp) : j \in
            { j \in 1..Len(ps) : \E k \in 1..Len(ps) :
                /\ k # j
                /\ Quantized(ps[k].Timestamp, spp) = Quantized(ps[j].Timestamp, spp) } }

\* the values of the most recent points of bucket i that quantize to t
NewestValues(i, t) ==
    LET spp == log[i].archive.SecondsPerPoint
        ps  == log[i].points
        grp == { j \in 1..Len(ps) : Quantized(ps[j].Timestamp, spp) = t }
    IN  { ps[j].Value : j \in { j \in grp : \A k \in grp :
                                   ps[k].Timestamp <= ps[j].Timestamp } }

\* the writePoints calls that archiveUpdateMany made for bucket i
BucketWrites(i) ==
    { j \in (i + 1)..Len(log) :
        /\ log[j].k = "write"
        /\ log[j].caller = "archiveUpdateMany"
        /\ \A m \in (i + 1)..j : log[m].k # "bucket" }

Supplied == last.archives

RECURSIVE MaxRetentionOf(_)
MaxRetentionOf(as) ==
    IF as = <<>> THEN 0
    ELSE LET m == MaxRetentionOf(Tail(as))
         IN  IF Head(as).SecondsPerPoint * Head(as).Points > m
             THEN Head(as).SecondsPerPoint * Head(as).Points ELSE m

RECURSIVE PointsBefore(_, _)
PointsBefore(as, i) == IF i <= 1 THEN 0 ELSE as[i - 1].Points + PointsBefore(as, i - 1)

\* C7: Create followed by reading the header returns the supplied metadata
\* and the supplied archives in ascending seconds_per_point order, archive i
\* at offset 16 + 12 * archive_count + 12 * (points of the archives before it).
C7_CreateThenReadHeader ==
    phase = "created" =>
        LET h == readHeader(file).header
            n == Len(Supplied)
        IN  /\ h.Metadata = [AggregationMethod |-> last.method,
                             MaxRetention |-> MaxRetentionOf(Supplied),
                             XFilesFactor |-> last.xFilesFactor,
                             ArchiveCount |-> n]
            /\ \E s \in sortBySecondsPerPoint(Supplied) :
                  h.Archives = [i \in 1..n |->
                                   ArchiveInfo(16 + 12 * n + 12 * PointsBefore(s, i),
                                               s[i].SecondsPerPoint, s[i].Points)]

\* C8: in every state after Create (dense or sparse) and any calls, the file
\* length is 16 + 12 * archive_count + the sum over the archives of points * 12.
C8_FileLength ==
    phase # "none" =>
        LET as == IF phase = "created" THEN Supplied ELSE header.Archives
        IN  4 * Len(file) = 16 + 12 * Len(as) + 12 * PointsBefore(as, Len(as) + 1)

\* the five structural rules, on a list sorted by seconds_per_point
Rule1(s) == Len(s) > 0

Rule2(s) ==
    \A i, j \in 1..Len(s) : i # j => s[i].SecondsPerPoint # s[j].SecondsPerPoint

Rule3(s) ==
    \A i \in 1..(Len(s) - 1) : s[i + 1].SecondsPerPoint % s[i].SecondsPerPoint = 0

Rule4(s) ==
    \A i \in 1..(Len(s) - 1) :
        s[i + 1].SecondsPerPoint * s[i + 1].Points > s[i].SecondsPerPoint * s[i].Points

Rule5(s) ==
    \A i \in 1..(Len(s) - 1) :
        s[i].Points >= s[i + 1].SecondsPerPoint \div s[i].SecondsPerPoint

Violated(s) ==
    (IF Rule1(s) THEN {} ELSE {1}) \cup (IF Rule2(s) THEN {} ELSE {2})
    \cup (IF Rule3(s) THEN {} ELSE {3}) \cup (IF Rule4(s) THEN {} ELSE {4})
    \cup (IF Rule5(s) THEN {} ELSE {5})

ErrorOfRule(k) ==
    IF k = 1 THEN ErrEmpty
    ELSE IF k = 2 THEN ErrDuplicate
    ELSE IF k = 3 THEN ErrNotDivisible
    ELSE IF k = 4 THEN ErrRetention
    ELSE ErrCoverage

\* C9: Create validates the archive list first: with a list that breaks one of
\* the five rules it fails with the schema error and writes nothing.
C9_CreateValidates ==
    (phase = "created"
        /\ \E s \in sortBySecondsPerPoint(Supplied) : Violated(s) # {}) =>
        /\ last.err # NoErr
        /\ file = <<>>

\* C10: ValidateArchiveList returns no error for every list that satisfies the
\* five rules, and for every list that breaks exactly one of them it returns
\* the error of that rule.
C10_ValidateArchiveList ==
    vout.done =>
        /\ Violated(vout.archives) = {} => vout.err = NoErr
        /\ \A k \in 1..5 : Violated(vout.archives) = {k} => vout.err = ErrorOfRule(k)

\* a list of three archives that breaks exactly the retention rule was rejected
C10_Witness ==
    /\ vout.done
    /\ Len(vout.archives) = 3
    /\ Violated(vout.archives) = {4}
    /\ vout.err = ErrRetention

ErrBadAggregationMethod == "BadAggregationMethod"

\* C11: SetAggregationMethod(m) with m outside 1..5 fails with
\* BadAggregationMethod and leaves the on-disk metadata unchanged; with m in
\* 1..5 it changes only the aggregation_method field of the metadata.
C11_SetAggregationMethodValidates ==
    last.op = "SetAggregationMethod" =>
        /\ last.method \notin 1..5 =>
              /\ last.err = ErrBadAggregationMethod
              /\ SubSeq(file, 1, 4) = SubSeq(pre, 1, 4)
        /\ last.method \in 1..5 => file = [pre EXCEPT ![1] = last.method]

\* the calls of writePoints and propagate, made by the last call, that failed
FailedCalls ==
    { i \in 1..Len(log) : log[i].k \in {"write", "propagate"} /\ log[i].err # NoErr }

\* C12: every I/O, capacity or aggregation error that arises while Update or
\* UpdateMany writes a point, writes a bucket or propagates is the error the
\* call returns; in UpdateMany an error while writing a bucket aborts the
\* batch, so that no later bucket is written.
C12_ErrorsSurface ==
    last.op \in {"Update", "UpdateMany"} =>
        /\ \A i \in FailedCalls : last.err = log[i].err
        /\ \A i \in FailedCalls :
              (log[i].k = "write" /\ log[i].caller = "archiveUpdateMany") =>
                  \A j \in (i + 1)..Len(log) : log[j].k # "bucket"

\* the timestamps held by the slots of archive a in the file f
SlotTimestamps(f, a) ==
    { readPoint(f, a.Offset + k * pointSize).point.Timestamp : k \in 0..(a.Points - 1) }

\* C13: after any sequence of Update and UpdateMany calls on a created
\* database, every slot of every archive A whose timestamp is non-zero holds
\* a timestamp that is a multiple of A.seconds_per_point.
C13_StoredTimestampsQuantized ==
    (phase = "open" /\ last.op \in {"Create", "Update", "UpdateMany"}) =>
        \A i \in 1..Len(header.Archives) :
            header.Archives[i].SecondsPerPoint > 0 =>
                \A t \in SlotTimestamps(file, header.Archives[i]) :
                    t % header.Archives[i].SecondsPerPoint = 0

\* the words of the file f after aggregation_method that make up its header:
\* max_retention, x_files_factor, archive_count and the archive descriptors
\* counted by the archive_count of the file g
FixedHeaderWords(f, g) ==
    [i \in 2..(4 + 3 * g[4]) |-> IF i <= Len(f) THEN f[i] ELSE -1]

\* C14: after Create, no Update, UpdateMany or SetAggregationMethod call
\* changes the on-disk archive descriptors, max_retention, x_files_factor or
\* archive_count; aggregation_method changes only by SetAggregationMethod.
C14_HeaderImmutable ==
    last.op \in {"Update", "UpdateMany", "SetAggregationMethod"} =>
        /\ FixedHeaderWords(file, pre) = FixedHeaderWords(pre, pre)
        /\ file[1] # pre[1] => last.op = "SetAggregationMethod"

\* the offset for timestamp t in archive a when the base is the point stored
\* at a.Offset
OffsetFromArchiveBase(f, a, t) ==
    LET base == readPoint(f, a.Offset).point.Timestamp
    IN  IF base = 0 THEN a.Offset
        ELSE Add32(a.Offset,
                   Mod32(Mul12(Div32(Sub32(t, base), a.SecondsPerPoint)), size(a)))

\* C15: pointOffset(archive, t) takes as base the point stored at
\* archive.offset: while that slot's timestamp is 0 it returns archive.offset,
\* and otherwise the offset of the slot (t - base) / seconds_per_point slots
\* further in the ring.
C15_PointOffsetBase ==
    phase = "open" =>
        \A i \in 1..Len(header.Archives) : \A a \in Ages :
            header.Archives[i].SecondsPerPoint > 0 =>
                pointOffset(file, header.Archives[i], Now0 - a).offset
                    = OffsetFromArchiveBase(file, header.Archives[i], Now0 - a)

\* the writePoints calls of the last call whose point is still in its slot
StoredWrites ==
    { i \in 1..Len(log) :
        /\ log[i].k = "write"
        /\ log[i].err = NoErr
        /\ Len(log[i].points) = 1
        /\ SlotOf(file, log[i].archive, log[i].points[1].Timestamp) = log[i].points[1] }

\* C16: a point written with quantized timestamp t to archive A is what the
\* slot at pointOffset(A, t) holds after any following call that does not
\* write a point to that slot of A (a write to another slot or archive, or
\* SetAggregationMethod).
C16_WrittenPointIsReadBack ==
    [][\A i \in StoredWrites :
          (\A j \in 1..Len(log') :
              log'[j].k = "write" =>
                  \/ log'[j].archive # log[i].archive
                  \/ log'[j].offset
                        # pointOffset(file, log[i].archive,
                                      log[i].points[1].Timestamp).offset)
          => SlotOf(file', log[i].archive, log[i].points[1].Timestamp)
                = log[i].points[1]]_vars

\* the ring slot of archive a, counted from 0, that starts at byte offset off
RingSlot(a, off) == (off - a.Offset) \div pointSize

\* the point held by ring slot k of archive a
RingPoint(f, a, k) == readPoint(f, a.Offset + k * pointSize).point

\* C17: writePoints(A, points) with 1 <= |points| <= A.points and timestamps
\* that are ascending multiples of the step, one step apart, returns no error
\* and leaves point i (counted from 0) in ring slot (s + i) mod A.points,
\* where s is the slot pointOffset gives for points[0]: a run that reaches
\* A.end continues at A.offset.  With 5 points, step 10 and a base timestamp
\* of 100, writing t = 150..190 fills ring slots 0, 1, 2, 3, 4 in order.
C17_WritePointsRing ==
    last.op = "writePoints" =>
        LET a == last.archives[1]
            s == RingSlot(a, pointOffset(pre, a, last.points[1].Timestamp).offset)
        IN  /\ last.err = NoErr
            /\ s \in 0..(a.Points - 1)
            /\ \A i \in 1..Len(last.points) :
                  RingPoint(file, a, (s + i - 1) % a.Points) = last.points[i]
            /\ ( /\ a.Points = 5 /\ a.SecondsPerPoint = 10
                 /\ readPoint(pre, 0).point.Timestamp = 100
                 /\ Len(last.points) = 5 /\ last.points[1].Timestamp = 150 )
               => \A k \in 0..4 : RingPoint(file, a, k).Timestamp = 150 + 10 * k

\* the calls of propagate in the log of the last operation, and the rank of
\* one of them among these calls
Propagations == { i \in 1..Len(log) : log[i].k = "propagate" }

PropagationRank(i) == Cardinality({ j \in Propagations : j <= i })

\* C18: within one Update call the file operations happen in the order:
\* write to the chosen archive, then propagate into each coarser archive from
\* finest to coarsest with higher = the archive written in the previous step;
\* the chain stops at the first propagation that returns false, so a coarser
\* archive is written only if every archive between the chosen one and it
\* was written earlier in the same call.
C18_UpdateOrder ==
    (last.op = "Update" /\ SortedHeader /\ LastAgeInRange) =>
        \E c \in 1..Len(header.Archives) :
            /\ Retention(header.Archives[c]) >= AgeOf(LastPoint, last.clock)
            /\ \A j \in 1..(c - 1) :
                  Retention(header.Archives[j]) < AgeOf(LastPoint, last.clock)
            /\ Len(log) >= 1
            /\ log[1].k = "write"
            /\ log[1].archive = header.Archives[c]
            /\ \A i \in Propagations :
                  /\ i > 1
                  /\ c + PropagationRank(i) <= Len(header.Archives)
                  /\ log[i].higher = header.Archives[c + PropagationRank(i) - 1]
                  /\ log[i].lower = header.Archives[c + PropagationRank(i)]
                  /\ \A j \in Propagations : j < i => (log[j].result /\ log[j].wrote)

\* the bucket whose write a call of propagate follows: the last bucket
\* recorded before it
BucketBefore(i) ==
    CHOOSE b \in Buckets : b < i /\ \A b2 \in Buckets : b2 < i => b2 <= b

\* C19: after UpdateMany writes a bucket to archive A, propagate is invoked
\* only with a lower archive strictly coarser than A (never A itself or a
\* finer one), in ascending seconds_per_point order and with higher = the
\* immediately finer archive, once per distinct re-quantized timestamp; the
\* whole chain stops as soon as any call returns false.
C19_UpdateManyPropagation ==
    (last.op = "UpdateMany" /\ SortedHeader) =>
        \A i \in Propagations :
            /\ \E b \in Buckets : b < i
            /\ log[i].lower.SecondsPerPoint
                  > log[BucketBefore(i)].archive.SecondsPerPoint
            /\ \E k \in 2..Len(header.Archives) :
                  /\ log[i].lower = header.Archives[k]
                  /\ log[i].higher = header.Archives[k - 1]
            /\ \A j \in Propagations :
                  (BucketBefore(i) < j /\ j < i) =>
                      /\ log[j].result
                      /\ log[j].lower.SecondsPerPoint <= log[i].lower.SecondsPerPoint
                      /\ log[j].lower = log[i].lower => log[j].start # log[i].start

\* the call propagate(t, higher, lower) would be on the file f: what it reads
\* of the finer archive for the lower interval of t
IntervalOf(f, higher, lower, t) == propagate(f, header, t, higher, lower).evs[1]

\* the slot of the coarser archive for the lower interval of t holds the
\* aggregate of the finer archive's points of the interval
HoldsAggregate(f, higher, lower, t) ==
    LET e == IntervalOf(f, higher, lower, t)
        p == SlotOf(f, lower, e.start)
    IN  /\ p.Timestamp = e.start
        /\ IsAggregate(header.Metadata.AggregationMethod, BelongingValues(e, 0), p.Value)

\* the coarser archive is stale for the lower interval of t although the finer
\* archive's slots of the interval meet the coverage
StaleFor(f, higher, lower, t) ==
    /\ CoverageMet(IntervalOf(f, higher, lower, t))
    /\ ~HoldsAggregate(f, higher, lower, t)

\* C20: if a coarser archive is stale for a lower interval while the finer
\* archive's slots of that interval meet the x_files_factor coverage, then an
\* Update whose timestamp falls in the interval succeeds and leaves the
\* coarser archive's slot for the interval holding the aggregate of the finer
\* archive's points of the interval.
C20_UpdateRepairsStale ==
    (last.op = "Update" /\ SortedHeader /\ LastAgeInRange
        /\ header.Metadata.AggregationMethod \in 1..5) =>
        \A c \in 1..(Len(header.Archives) - 1) :
            ( /\ Retention(header.Archives[c]) >= AgeOf(LastPoint, last.clock)
              /\ \A j \in 1..(c - 1) :
                    Retention(header.Archives[j]) < AgeOf(LastPoint, last.clock)
              /\ StaleFor(pre, header.Archives[c], header.Archives[c + 1],
                          LastPoint.Timestamp) )
            => /\ ~last.panic
               /\ last.err = NoErr
               /\ HoldsAggregate(file, header.Archives[c], header.Archives[c + 1],
                                 LastPoint.Timestamp)

\* the words of the file that hold the bytes [a.offset, a.offset + a.points * 12)
RegionWords(a) == (a.Offset \div 4 + 1)..((a.Offset + a.Points * pointSize) \div 4)

Writes == { i \in 1..Len(log) : log[i].k = "write" }

\* C21: every write performed by writePoint/writePoints for an archive A of
\* the header, whether reached from Update, UpdateMany or propagate, modifies
\* only bytes inside [A.offset, A.offset + A.points * 12): the regions of all
\* other archives are left unchanged, and a call with more points than
\* A.points returns an error without modifying the file.
C21_WriteStaysInArchive ==
    phase = "open" =>
        \A i \in Writes :
            /\ log[i].changed \subseteq RegionWords(log[i].archive)
            /\ \A j \in 1..Len(header.Archives) :
                  header.Archives[j] # log[i].archive =>
                      log[i].changed \cap RegionWords(header.Archives[j]) = {}
            /\ Len(log[i].points) > log[i].archive.Points =>
                  (log[i].err = ErrCapacity /\ log[i].changed = {})

====
